---- MODULE Spec2Model ----
(***************************************************************************)
(* babylogger: an HTTP logging middleware.                                 *)
(*                                                                         *)
(* The repository holds two revisions of the package:                      *)
(*   "lipgloss"  src/example/main.go:98-249  styles rendered by lipgloss,  *)
(*               logWriter.Hijack, the nil-request guard;                  *)
(*   "palette"   src/babylogger.go           the colors map blanked by     *)
(*               checkTTY, the reset sequence appended to each line.       *)
(* The variable impl says which revision runs; it never changes.           *)
(*                                                                         *)
(* A request slot i goes through                                           *)
(*   idle -> serving -> returned -> done      (or idle -> panicked)        *)
(* idle: the handler was not invoked yet; serving: the inner handler runs  *)
(* and calls Write / WriteHeader / Hijack on the capturing writer;         *)
(* returned: the inner handler returned; done: the response line was       *)
(* logged and the handler returned; panicked: the handler panicked;        *)
(* crashed: the runtime stopped the process (concurrent map read and map   *)
(* write on the colors map).                                               *)
(***************************************************************************)
EXTENDS Integers, Sequences, FiniteSets, TLC

\* ---------------------------------------------------------------- bounds
NumRequests    == 2   \* request slots handled concurrently
MaxCalls       == 2   \* calls of one inner handler on its writer (one request)
MaxConcCalls   == 1   \* the same, when several requests run concurrently
MaxWriteLen    == 2   \* len(p) of one Write
MaxAddrLen     == 4   \* length of a remote address string
MaxMiddlewares == 2   \* calls of Middleware(next)

Slots == 1 .. NumRequests

\* ------------------------------------------------------- program constants
StatusOK                  == 200
StatusInternalServerError == 500

reset == "ESC[0m"

ColorKeys == {"violet", "red", "yellow", "green", "cyan", "darkGrey", "grey"}

\* var colors = map[int]string{...}
Palette ==
    [k \in ColorKeys |->
        CASE k = "violet"   -> "ESC[38;5;62m"
          [] k = "red"      -> "ESC[38;5;204m"
          [] k = "yellow"   -> "ESC[38;5;192m"
          [] k = "green"    -> "ESC[38;5;48m"
          [] k = "cyan"     -> "ESC[38;5;86m"
          [] k = "darkGrey" -> "ESC[38;5;240m"
          [] k = "grey"     -> "ESC[38;5;250m"]

\* The lipgloss revision has no colors map.
NoPalette == [k \in {} |-> ""]

\* ------------------------------------------------------------ input sets
\* The *http.Request handed to the handler; isNil is the nil pointer.
NilRequest == [isNil |-> TRUE, Method |-> "", RequestURI |-> "", RemoteAddr |-> <<>>]

Request(addr) ==
    [isNil |-> FALSE, Method |-> "GET", RequestURI |-> "/", RemoteAddr |-> addr]

Requests == {NilRequest, Request(<<"1", ":", "9">>), Request(<<"1">>)}

AddrChars == {"1", ".", ":"}

RECURSIVE Strings(_)
Strings(n) ==
    IF n = 0 THEN {<<>>}
    ELSE LET shorter == Strings(n - 1)
         IN  shorter \cup {Append(s, c) : s \in {t \in shorter : Len(t) = n - 1}, c \in AddrChars}

AddrRequests == {Request(a) : a \in Strings(MaxAddrLen)}

StatusCodes == {204, 301, 404, 503}
ConcCodes   == {404}
BandCodes   == {100, 101, 199, 200, 204, 299, 300, 301, 399, 400, 404, 499, 500, 503, 599}

VARIABLES
    impl,     \* the revision that runs
    isTTY,    \* terminal.IsTerminal(os.Stdout.Fd())
    colors,   \* the package-level colors map (palette revision)
    built,    \* number of Middleware(next) calls so far
    pc,       \* pc[i]: where request slot i is
    req,      \* req[i]: the *http.Request of slot i
    hij,      \* hij[i]: the underlying ResponseWriter of slot i is an http.Hijacker
    writer,   \* writer[k]: a logWriter {code, bytes}
    calls,    \* calls[i]: the calls the inner handler made on its writer, with what they returned
    under,    \* under[i]: the calls the underlying ResponseWriter received, with what it returned
    log       \* the lines handed to log.Printf, in order

vars == <<impl, isTTY, colors, built, pc, req, hij, writer, calls, under, log>>

\* ------------------------------------------------------- pure functions

\* strings.LastIndex(s, ":"): the 0-based index of the last colon, -1 without one.
RECURSIVE LastIndexFrom(_, _)
LastIndexFrom(s, k) ==
    IF k = 0 THEN -1
    ELSE IF s[k] = ":" THEN k - 1
    ELSE LastIndexFrom(s, k - 1)

LastIndex(s) == LastIndexFrom(s, Len(s))

\* strings.Index in place of strings.LastIndex: cuts at the first colon.
RECURSIVE FirstIndexFrom(_, _)
FirstIndexFrom(s, k) ==
    IF k > Len(s) THEN -1
    ELSE IF s[k] = ":" THEN k - 1
    ELSE FirstIndexFrom(s, k + 1)

StripPortAtFirstColon(addr) ==
    LET colon == FirstIndexFrom(addr, 1)
    IN  IF colon # -1 THEN SubSeq(addr, 1, colon) ELSE addr

\* addr := r.RemoteAddr; if colon := LastIndex(addr, ":"); colon != -1 { addr = addr[:colon] }
StripPort(addr) ==
    LET colon == LastIndex(addr)
    IN  IF colon # -1 THEN SubSeq(addr, 1, colon) ELSE addr

\* The chain with <= for <: 300, 400 and 500 fall in the lower band.
StatusStyleInclusive(code) ==
    IF code <= 300 THEN "http200Style"
    ELSE IF code <= 400 THEN "http300Style"
    ELSE IF code <= 500 THEN "http400Style"
    ELSE "http500Style"

\* The if / else-if chain on writer.code that picks the style of the status.
StatusStyle(code) ==
    IF code < 300 THEN "http200Style"
    ELSE IF code < 400 THEN "http300Style"
    ELSE IF code < 500 THEN "http400Style"
    ELSE "http500Style"

\* The same chain of the palette revision, picking a key of the colors map.
StatusColor(code) ==
    IF code < 300 THEN "green"
    ELSE IF code < 400 THEN "yellow"
    ELSE IF code < 500 THEN "cyan"
    ELSE "red"

\* if !terminal.IsTerminal(...) { for k := range colors { colors[k] = "" } }
checkTTY(cols, tty) ==
    IF ~tty THEN [k \in DOMAIN cols |-> ""] ELSE cols

\* The keys of the colors map checkTTY assigns: all of them off a terminal
\* (whatever they hold already), none on a terminal.
checkTTYWrites(cols, tty) ==
    IF ~tty THEN DOMAIN cols ELSE {}

\* One %s of a log line: the style (or color key) applied, the escape sequence
\* the package itself concatenates in front, and the text.
Piece(style, esc, txt) == [style |-> style, esc |-> esc, txt |-> txt]

\* The request line: arrow, method, uri, address (and reset, palette revision).
RequestLine(im, cols, r) ==
    LET addr == StripPort(r.RemoteAddr)
    IN  IF im = "lipgloss"
        THEN << Piece("subtleStyle", "", <<"<-">>),
                Piece("methodStyle", "", <<r.Method>>),
                Piece("uriStyle", "", <<r.RequestURI>>),
                Piece("addressStyle", "", addr) >>
        ELSE << Piece("darkGrey", cols["darkGrey"], <<"<-">>),
                Piece("violet", cols["violet"], <<r.Method>>),
                Piece("grey", cols["grey"], <<r.RequestURI>>),
                Piece("darkGrey", cols["darkGrey"], addr),
                Piece("", reset, <<>>) >>

\* The response line: arrow, "<code> <text>", bytes, elapsed time (and reset).
\* The status piece carries the %d of the code, the bytes piece the counter
\* handed to the formatter, the time piece the elapsed duration.
ResponseLine(im, cols, w) ==
    IF im = "lipgloss"
    THEN << Piece("subtleStyle", "", <<"->">>),
            Piece(StatusStyle(w.code), "", <<w.code>>),
            Piece("subtleStyle", "", <<w.bytes>>),
            Piece("timeStyle", "", <<"elapsed">>) >>
    ELSE << Piece("darkGrey", cols["darkGrey"], <<"->">>),
            Piece(StatusColor(w.code), cols[StatusColor(w.code)], <<w.code>>),
            Piece("grey", cols["grey"], <<w.bytes, "B">>),
            Piece("darkGrey", cols["darkGrey"], <<"elapsed">>),
            Piece("", reset, <<>>) >>

Line(i, kind, parts) == [id |-> i, kind |-> kind, parts |-> parts]

\* ------------------------------------------------------------ logWriter

\* What a call returns: a byte count, an error, a connection.
Result(n, err, conn) == [n |-> n, err |-> err, conn |-> conn]
NoResult == Result(0, FALSE, "nil")

Call(op, arg, res) ==
    [op |-> op, arg |-> arg, n |-> res.n, err |-> res.err, conn |-> res.conn]

\* The zero logWriter of a slot whose handler was not invoked.
ZeroWriter == [code |-> 0, bytes |-> 0]

\* writer := &logWriter{ResponseWriter: w, code: http.StatusOK}
NewLogWriter == [code |-> StatusOK, bytes |-> 0]

\* One logWriter kept at package level and shared by every invocation.
SharedWriter(i) == 1

\* The logWriter the invocation in slot i works on: its own.
WriterOf(i) == i

\* r.RemoteAddr on a nil *http.Request panics.
DerefPanics(r) == r.isNil

\* Write that adds len(p) in place of the returned count.
logWriterWriteCountsLen(w, p, ures) ==
    [w   |-> [w EXCEPT !.bytes = @ + p],
     fwd |-> << [op |-> "Write", arg |-> p] >>,
     ret |-> Result(ures.n, ures.err, "nil")]

\* Write that reports the whole of p written and no error.
logWriterWriteSwallowsError(w, p, ures) ==
    [w   |-> [w EXCEPT !.bytes = @ + ures.n],
     fwd |-> << [op |-> "Write", arg |-> p] >>,
     ret |-> Result(p, FALSE, "nil")]

\* func (r *logWriter) Write(p): forwards p, adds the returned count, returns
\* the underlying result.  ures is what the underlying Write(p) returns.
logWriterWrite(w, p, ures) ==
    [w   |-> [w EXCEPT !.bytes = @ + ures.n],
     fwd |-> << [op |-> "Write", arg |-> p] >>,
     ret |-> Result(ures.n, ures.err, "nil")]

\* WriteHeader that records the first status only.
logWriterWriteHeaderFirstWins(w, code) ==
    [w   |-> IF w.code = StatusOK THEN [w EXCEPT !.code = code] ELSE w,
     fwd |-> << [op |-> "WriteHeader", arg |-> code] >>,
     ret |-> NoResult]

\* func (r *logWriter) WriteHeader(code): records code, forwards it.
logWriterWriteHeader(w, code) ==
    [w   |-> [w EXCEPT !.code = code],
     fwd |-> << [op |-> "WriteHeader", arg |-> code] >>,
     ret |-> NoResult]

\* Hijack without the type assertion: never forwards, always the error.
logWriterHijackUnsupported(w, isHijacker, ures) ==
    [w |-> w, fwd |-> <<>>, ret |-> Result(0, TRUE, "nil")]

\* func (r *logWriter) Hijack(): the underlying Hijack() when the underlying
\* writer is an http.Hijacker, else (nil, nil, error).
logWriterHijack(w, isHijacker, ures) ==
    IF ~isHijacker
    THEN [w |-> w, fwd |-> <<>>, ret |-> Result(0, TRUE, "nil")]
    ELSE [w |-> w, fwd |-> << [op |-> "Hijack", arg |-> 0] >>, ret |-> ures]

\* The underlying ResponseWriter receives the forwarded calls and answers ures.
Received(fwd, ures) == [k \in DOMAIN fwd |-> Call(fwd[k].op, fwd[k].arg, ures)]

\* ---------------------------------------------------------------- Init

InitWith(im, ttys) ==
    /\ impl = im
    /\ isTTY \in ttys
    /\ colors = IF im = "palette" THEN Palette ELSE NoPalette
    /\ built = 0
    /\ pc = [i \in Slots |-> "idle"]
    /\ req = [i \in Slots |-> NilRequest]
    /\ hij = [i \in Slots |-> FALSE]
    /\ writer = [i \in Slots |-> ZeroWriter]
    /\ calls = [i \in Slots |-> <<>>]
    /\ under = [i \in Slots |-> <<>>]
    /\ log = <<>>

Init == InitWith("lipgloss", {TRUE})

InitPalette == InitWith("palette", BOOLEAN)

\* -------------------------------------------------------------- actions

\* func Middleware(next): the palette revision runs checkTTY(); returns the handler.
Construct(limit) ==
    /\ built < limit
    /\ built' = built + 1
    /\ colors' = IF impl = "palette" THEN checkTTY(colors, isTTY) ELSE colors
    /\ UNCHANGED <<impl, isTTY, pc, req, hij, writer, calls, under, log>>

\* Middleware(next) called again while the handler of a request that has
\* returned from next.ServeHTTP reads colors[...] for its response line:
\* checkTTY assigns the map without synchronization, and the runtime may
\* stop the process (fatal error: concurrent map read and map write).  The
\* other outcome, both complete, is Construct followed by LogResponse.
ConstructRacing(limit) ==
    /\ built > 0
    /\ built < limit
    /\ impl = "palette"
    /\ checkTTYWrites(colors, isTTY) # {}
    /\ \E i \in Slots : pc[i] = "returned"
    /\ built' = built + 1
    /\ colors' = checkTTY(colors, isTTY)
    /\ pc' = [i \in Slots |-> "crashed"]
    /\ UNCHANGED <<impl, isTTY, req, hij, writer, calls, under, log>>

\* The server invokes the handler with (w, r): the handler reads r.RemoteAddr,
\* logs the request line, makes its logWriter and, unless r is nil (lipgloss
\* revision), calls next.ServeHTTP(writer, r).
HandlerEntry(i, Rs, Hs) ==
    /\ pc[i] = "idle"
    /\ built > 0
    /\ \E r \in Rs, h \in Hs :
        /\ req' = [req EXCEPT ![i] = r]
        /\ hij' = [hij EXCEPT ![i] = h]
        /\ IF DerefPanics(r)
           THEN /\ pc' = [pc EXCEPT ![i] = "panicked"]
                /\ UNCHANGED <<writer, under, log>>
           ELSE /\ log' = Append(log, Line(i, "request", RequestLine(impl, colors, r)))
                /\ IF impl = "lipgloss" /\ r.isNil
                   THEN \* http.Error(w, text, 500) on the original writer; writer.code = 500
                        /\ under' = [under EXCEPT ![i] =
                               << Call("WriteHeader", StatusInternalServerError, NoResult),
                                  Call("Write", 1, Result(1, FALSE, "nil")) >>]
                        /\ writer' = [writer EXCEPT ![WriterOf(i)] =
                               [NewLogWriter EXCEPT !.code = StatusInternalServerError]]
                        /\ pc' = [pc EXCEPT ![i] = "returned"]
                   ELSE /\ writer' = [writer EXCEPT ![WriterOf(i)] = NewLogWriter]
                        /\ pc' = [pc EXCEPT ![i] = "serving"]
                        /\ UNCHANGED under
    /\ UNCHANGED <<impl, isTTY, colors, built, calls>>

\* The inner handler calls writer.Write(p); the underlying writer writes n of
\* the len(p) bytes and reports an error when it wrote fewer (io.Writer).
\* errs: whether the underlying writer may fail.
InnerWrite(i, lens, errs, limit) ==
    /\ pc[i] = "serving"
    /\ Len(calls[i]) < limit
    /\ \E p \in lens, e \in errs :
        \E n \in 0 .. p :
            /\ n < p => e
            /\ LET ures == Result(n, e, "nil")
                   r    == logWriterWrite(writer[WriterOf(i)], p, ures)
               IN  /\ writer' = [writer EXCEPT ![WriterOf(i)] = r.w]
                   /\ under' = [under EXCEPT ![i] = @ \o Received(r.fwd, ures)]
                   /\ calls' = [calls EXCEPT ![i] = Append(@, Call("Write", p, r.ret))]
    /\ UNCHANGED <<impl, isTTY, colors, built, pc, req, hij, log>>

\* The inner handler calls writer.WriteHeader(code).
InnerWriteHeader(i, codes, limit) ==
    /\ pc[i] = "serving"
    /\ Len(calls[i]) < limit
    /\ \E c \in codes :
        LET r == logWriterWriteHeader(writer[WriterOf(i)], c)
        IN  /\ writer' = [writer EXCEPT ![WriterOf(i)] = r.w]
            /\ under' = [under EXCEPT ![i] = @ \o Received(r.fwd, NoResult)]
            /\ calls' = [calls EXCEPT ![i] = Append(@, Call("WriteHeader", c, r.ret))]
    /\ UNCHANGED <<impl, isTTY, colors, built, pc, req, hij, log>>

\* The inner handler calls writer.Hijack() (lipgloss revision only); an
\* underlying Hijacker hands over the connection or fails.
InnerHijack(i, limit) ==
    /\ pc[i] = "serving"
    /\ impl = "lipgloss"
    /\ Len(calls[i]) < limit
    /\ \E ok \in BOOLEAN :
        LET ures == IF ok THEN Result(0, FALSE, "conn") ELSE Result(0, TRUE, "nil")
            r    == logWriterHijack(writer[WriterOf(i)], hij[i], ures)
        IN  /\ writer' = [writer EXCEPT ![WriterOf(i)] = r.w]
            /\ under' = [under EXCEPT ![i] = @ \o Received(r.fwd, ures)]
            /\ calls' = [calls EXCEPT ![i] = Append(@, Call("Hijack", 0, r.ret))]
    /\ UNCHANGED <<impl, isTTY, colors, built, pc, req, hij, log>>

\* next.ServeHTTP(writer, r) returns.
InnerReturn(i) ==
    /\ pc[i] = "serving"
    /\ pc' = [pc EXCEPT ![i] = "returned"]
    /\ UNCHANGED <<impl, isTTY, colors, built, req, hij, writer, calls, under, log>>

\* The handler formats and logs the response line, and returns.
LogResponse(i) ==
    /\ pc[i] = "returned"
    /\ log' = Append(log, Line(i, "response", ResponseLine(impl, colors, writer[WriterOf(i)])))
    /\ pc' = [pc EXCEPT ![i] = "done"]
    /\ UNCHANGED <<impl, isTTY, colors, built, req, hij, writer, calls, under>>

\* ------------------------------------------------------- specifications

\* One request, the inner handler free to make any MaxCalls calls.
Next ==
    \/ Construct(1)
    \/ HandlerEntry(1, Requests, BOOLEAN)
    \/ InnerWrite(1, 0 .. MaxWriteLen, BOOLEAN, MaxCalls)
    \/ InnerWriteHeader(1, StatusCodes, MaxCalls)
    \/ InnerHijack(1, MaxCalls)
    \/ InnerReturn(1)
    \/ LogResponse(1)

Spec == Init /\ [][Next]_vars

\* NumRequests requests handled concurrently; the inner handlers write one
\* byte or set 404, and the underlying writers do not fail.
NextConc ==
    \/ Construct(1)
    \/ \E i \in Slots :
        \/ HandlerEntry(i, {NilRequest, Request(<<"1", ":", "9">>)}, {FALSE})
        \/ InnerWrite(i, {1}, {FALSE}, MaxConcCalls)
        \/ InnerWriteHeader(i, ConcCodes, MaxConcCalls)
        \/ InnerReturn(i)
        \/ LogResponse(i)

SpecConc == Init /\ [][NextConc]_vars

\* One request whose inner handler sets statuses around the band boundaries.
NextBand ==
    \/ Construct(1)
    \/ HandlerEntry(1, {Request(<<"1">>)}, {FALSE})
    \/ InnerWriteHeader(1, BandCodes, MaxCalls)
    \/ InnerReturn(1)
    \/ LogResponse(1)

SpecBand == Init /\ [][NextBand]_vars

\* One request with any remote address of at most MaxAddrLen characters.
NextAddr ==
    \/ Construct(1)
    \/ HandlerEntry(1, AddrRequests, {FALSE})
    \/ InnerReturn(1)
    \/ LogResponse(1)

SpecAddr == Init /\ [][NextAddr]_vars

\* The palette revision: Middleware may be called again while requests run.
NextPalette ==
    \/ Construct(MaxMiddlewares)
    \/ ConstructRacing(MaxMiddlewares)
    \/ \E i \in Slots :
        \/ HandlerEntry(i, {NilRequest, Request(<<"1", ":", "9">>)}, {FALSE})
        \/ InnerWrite(i, {1}, {FALSE}, MaxConcCalls)
        \/ InnerWriteHeader(i, ConcCodes, MaxConcCalls)
        \/ InnerReturn(i)
        \/ LogResponse(i)

SpecPalette == InitPalette /\ [][NextPalette]_vars

\* --------------------------------------------------- reading the history

RequestLines(i)  == SelectSeq(log, LAMBDA l : l.id = i /\ l.kind = "request")
ResponseLines(i) == SelectSeq(log, LAMBDA l : l.id = i /\ l.kind = "response")

\* What a line reports.
ReportedAddr(l)   == l.parts[4].txt
ReportedStatus(l) == l.parts[2].txt[1]
ReportedBand(l)   == l.parts[2].style
ReportedBytes(l)  == l.parts[3].txt[1]

\* The argument of the last WriteHeader among the calls cs, 200 without one.
RECURSIVE LastSetStatus(_)
LastSetStatus(cs) ==
    IF cs = <<>> THEN 200
    ELSE IF cs[Len(cs)].op = "WriteHeader" THEN cs[Len(cs)].arg
    ELSE LastSetStatus(SubSeq(cs, 1, Len(cs) - 1))

\* The sum of the counts the Write calls among cs returned.
RECURSIVE SumWritten(_)
SumWritten(cs) ==
    IF cs = <<>> THEN 0
    ELSE (IF cs[1].op = "Write" THEN cs[1].n ELSE 0) + SumWritten(Tail(cs))

IsBodyOrHeader(c) == c.op \in {"Write", "WriteHeader"}

HasWriter(i) == pc[i] \in {"serving", "returned", "done"}

Finished(i) == pc[i] \in {"done", "panicked"}

\* ------------------------------------------------------------------ C1
\* C1: the status a response line reports is the argument of the last
\* WriteHeader call the inner handler of that request made on the capturing
\* writer, or 200 when it made none; Write calls do not change it.
C1_StatusIsLastWriteHeader ==
    \A k \in DOMAIN log :
        log[k].kind = "response" =>
            ReportedStatus(log[k]) = LastSetStatus(calls[log[k].id])

\* A request that set 301, then 404, then wrote: the line reports 404.
C1_Witness ==
    /\ pc[1] = "done"
    /\ Len(calls[1]) >= 2
    /\ calls[1][1].op = "WriteHeader" /\ calls[1][1].arg = 301
    /\ calls[1][2].op = "WriteHeader" /\ calls[1][2].arg = 404
    /\ ReportedStatus(ResponseLines(1)[1]) = 404

\* ------------------------------------------------------------------ C2
\* C2: the byte counter of a capturing writer equals the sum of the counts
\* the underlying writer returned for the Write calls (not of len(p)); it
\* starts at 0, never decreases, and is what the response line reports.
C2_CounterIsSum ==
    /\ \A i \in Slots :
          HasWriter(i) => writer[i].bytes = SumWritten(under[i])
    /\ \A k \in DOMAIN log :
          log[k].kind = "response" =>
              ReportedBytes(log[k]) = SumWritten(under[log[k].id])

C2_ByteCounter ==
    /\ []C2_CounterIsSum
    /\ [][\A i \in Slots : HasWriter(i) => writer'[i].bytes >= writer[i].bytes]_vars

\* A request with a short write (1 of 2 bytes) whose line reports 1 byte.
C2_Witness ==
    /\ pc[1] = "done"
    /\ \E k \in DOMAIN calls[1] :
          calls[1][k].op = "Write" /\ calls[1][k].arg = 2 /\ calls[1][k].n = 1
    /\ SumWritten(under[1]) = 1
    /\ ReportedBytes(ResponseLines(1)[1]) = 1

\* ------------------------------------------------------------------ C3
\* C3: every invocation of the logging handler emits exactly two lines, the
\* request line before the inner handler starts and the response line after
\* it returns, and the request line of a request precedes its response line.
C3_TwoLinesPerInvocation ==
    \A i \in Slots :
        /\ HasWriter(i) => Len(RequestLines(i)) = 1
        /\ pc[i] = "serving" => Len(ResponseLines(i)) = 0
        /\ Finished(i) =>
              /\ Len(RequestLines(i)) = 1
              /\ Len(ResponseLines(i)) = 1
              /\ \E a, b \in DOMAIN log :
                    /\ a < b
                    /\ log[a].id = i /\ log[a].kind = "request"
                    /\ log[b].id = i /\ log[b].kind = "response"

\* ------------------------------------------------------------------ C4
\* C4: when standard output is not a terminal no log line holds an escape
\* sequence (the trailing reset included), and its text is the text of the
\* colorized line.
PieceTexts(parts) == [k \in DOMAIN parts |-> parts[k].txt]

C4_NoEscapesOffTerminal ==
    ~isTTY =>
        \A k \in DOMAIN log :
            /\ \A j \in DOMAIN log[k].parts : log[k].parts[j].esc = ""
            /\ log[k].kind = "request" =>
                  PieceTexts(log[k].parts)
                      = PieceTexts(RequestLine(impl, Palette, req[log[k].id]))

\* ------------------------------------------------------------------ C5
\* C5: a handler invoked with a nil request does not panic and never calls
\* the inner handler; it writes a 500 through the original writer, sets the
\* capture's status to 500 and emits one response line reporting 500.
C5_NilRequestHandled ==
    \A i \in Slots :
        (pc[i] # "idle" /\ req[i].isNil) =>
            /\ pc[i] # "panicked"
            /\ pc[i] # "serving"
            /\ calls[i] = <<>>
            /\ writer[i].code = 500
            /\ pc[i] = "done" =>
                  /\ Len(ResponseLines(i)) = 1
                  /\ ReportedStatus(ResponseLines(i)[1]) = 500

\* ------------------------------------------------------------------ C6
\* C6: Hijack on the capturing writer returns what the underlying Hijack
\* returned when the underlying writer is a Hijacker, and a nil connection
\* with an error when it is not (nothing is forwarded); either way the
\* recorded status and byte count stay as they were.
HijackCalled(i) ==
    /\ Len(calls'[i]) = Len(calls[i]) + 1
    /\ calls'[i][Len(calls'[i])].op = "Hijack"

C6_Hijack ==
    [][\A i \in Slots :
          HijackCalled(i) =>
              LET ret == calls'[i][Len(calls'[i])]
              IN  /\ writer' = writer
                  /\ hij[i] =>
                        /\ Len(under'[i]) = Len(under[i]) + 1
                        /\ under'[i][Len(under'[i])] = ret
                  /\ ~hij[i] =>
                        /\ under'[i] = under[i]
                        /\ ret.conn = "nil"
                        /\ ret.err]_vars

\* A Hijack after a WriteHeader on a writer whose underlying writer handed
\* over the connection.
C6_Witness ==
    /\ hij[1]
    /\ Len(calls[1]) = 2
    /\ calls[1][1].op = "WriteHeader"
    /\ calls[1][2].op = "Hijack" /\ calls[1][2].conn = "conn" /\ ~calls[1][2].err
    /\ writer[1].code = calls[1][1].arg

\* ------------------------------------------------------------------ C7
\* C7: the final status is put in one of four bands: [100,300) success,
\* [300,400) redirect, [400,500) client error, 500 and above server error.
BandOf(code) ==
    CASE 100 <= code /\ code <= 299 -> "http200Style"
      [] 300 <= code /\ code <= 399 -> "http300Style"
      [] 400 <= code /\ code <= 499 -> "http400Style"
      [] 500 <= code                -> "http500Style"

C7_StatusBands ==
    \A k \in DOMAIN log :
        log[k].kind = "response" =>
            ReportedBand(log[k]) = BandOf(ReportedStatus(log[k]))

\* A request that set 299 and then 300: the line is in the redirect band.
C7_Witness ==
    /\ pc[1] = "done"
    /\ Len(calls[1]) = 2
    /\ calls[1][1].arg = 299 /\ calls[1][2].arg = 300
    /\ ReportedStatus(ResponseLines(1)[1]) = 300
    /\ ReportedBand(ResponseLines(1)[1]) = "http300Style"

\* ------------------------------------------------------------------ C8
\* C8: the address of the request line is the part of the remote address
\* before its last colon when it has a colon, else the whole remote address.
ExpectedAddr(a) ==
    IF \E k \in DOMAIN a : a[k] = ":"
    THEN LET last == CHOOSE k \in DOMAIN a :
                        a[k] = ":" /\ \A j \in DOMAIN a : j > k => a[j] # ":"
         IN  [k \in 1 .. (last - 1) |-> a[k]]
    ELSE a

C8_AddressStripped ==
    \A k \in DOMAIN log :
        log[k].kind = "request" =>
            ReportedAddr(log[k]) = ExpectedAddr(req[log[k].id].RemoteAddr)

\* The remote address "1:.:" is logged as "1:.": cut at the last colon only.
C8_Witness ==
    /\ Len(RequestLines(1)) = 1
    /\ req[1].RemoteAddr = <<"1", ":", ".", ":">>
    /\ ReportedAddr(RequestLines(1)[1]) = <<"1", ":", ".">>

\* ------------------------------------------------------------------ C9
\* C9: the underlying writer receives the Write and WriteHeader calls the
\* inner handler made on the capturing writer, once each, in order, with the
\* same arguments, and each call returns to the inner handler the count and
\* error the underlying writer returned.
C9_Transparent ==
    \A i \in Slots :
        SelectSeq(under[i], IsBodyOrHeader) = SelectSeq(calls[i], IsBodyOrHeader)

\* A Write that failed after 1 of 2 bytes, then a WriteHeader: the inner
\* handler saw the short count and the error.
C9_Witness ==
    /\ Len(calls[1]) = 2
    /\ calls[1][1].op = "Write" /\ calls[1][1].arg = 2
    /\ calls[1][1].n = 1 /\ calls[1][1].err
    /\ calls[1][2].op = "WriteHeader"
    /\ Len(under[1]) = 2

\* ----------------------------------------------------------------- C10
\* C10: each invocation has its own capture: a call one request's inner
\* handler makes on its writer leaves the status and byte count of every
\* other request as they were, and each response line reports the status and
\* bytes of its own request.
C10_OwnLine ==
    \A k \in DOMAIN log :
        log[k].kind = "response" =>
            /\ ReportedStatus(log[k]) = LastSetStatus(calls[log[k].id])
            /\ ReportedBytes(log[k]) = SumWritten(calls[log[k].id])

C10_CaptureIsOwn ==
    /\ []C10_OwnLine
    /\ [][\A i, j \in Slots :
            (i # j /\ calls'[i] # calls[i]) => writer'[j] = writer[j]]_vars

\* Two requests in flight together, one set 404, the other wrote a byte:
\* each line reports its own request.
C10_Witness ==
    /\ Len(log) = 4
    /\ log[1].kind = "request" /\ log[2].kind = "request"
    /\ log[1].id # log[2].id
    /\ \E i, j \in Slots :
          /\ i # j
          /\ Len(calls[i]) = 1 /\ calls[i][1].op = "WriteHeader"
          /\ Len(calls[j]) = 1 /\ calls[j][1].op = "Write" /\ calls[j][1].n = 1
          /\ ReportedStatus(ResponseLines(i)[1]) = 404
          /\ ReportedBytes(ResponseLines(i)[1]) = 0
          /\ ReportedStatus(ResponseLines(j)[1]) = 200
          /\ ReportedBytes(ResponseLines(j)[1]) = 1

\* ----------------------------------------------------------------- C11
\* C11: the colors map is written only by the terminal check of a
\* Middleware(next) call, never by a step of a request, and is read-only
\* once requests read it: no write to it happens while a request that reads
\* it is in flight, or after a request has read it.
\* A step that assigns keys of the colors map.
PaletteWritten ==
    /\ impl = "palette"
    /\ built' # built
    /\ checkTTYWrites(colors, isTTY) # {}

\* Some request has read the colors map (every logged line is built from it).
PaletteRead == impl = "palette" /\ log # <<>>

\* The handler of some request is running.
RequestInFlight == \E i \in Slots : pc[i] \in {"serving", "returned"}

C11_PaletteReadOnlyAfterInit ==
    [][/\ built' = built => colors' = colors
       /\ PaletteWritten => (~PaletteRead /\ ~RequestInFlight)]_vars

====
